---- MODULE Spec2Model ----
(***************************************************************************)
(* A model of the 3D maze generator (src/src/maze.py, src/src/room.py).    *)
(* Maze.__init__ runs four stages: _init_maze, _generate_rooms,            *)
(* _generate_maze_network and _generate_spanning_tree; print_floor_plan    *)
(* renders the finished maze.  Every random.randint / random.choice draw   *)
(* is a nondeterministic choice over the values the call can return.       *)
(*                                                                         *)
(* Python tuples loc, size, maze_size are TLA+ tuples: component d of the  *)
(* source (0, 1, 2) is component d+1 here.  Cell coordinates and room ids  *)
(* keep the values of the source.                                          *)
(***************************************************************************)
EXTENDS Integers, Sequences, FiniteSets, TLC

VARIABLES config, maze, rooms, paths, doors, solution_path,
          stack, visited, scan, room_id, floor_plan, pc, error

vars == <<config, maze, rooms, paths, doors, solution_path,
          stack, visited, scan, room_id, floor_plan, pc, error>>

(***************************************************************************)
(* Bounds of the model and values taken from the source.                   *)
(***************************************************************************)
\* the partition and the network are explored on mazes of at most MaxCells cells
MaxCells == 8
\* the whole construction is explored on mazes of at most MaxTreeCells cells ...
MaxTreeCells == 6
\* ... of which at most MaxFree are left to the generated rooms
MaxFree == 4
MaxAnyCells == 4
MaxLiveCells == 5
MaxDoorFree == 2
\* the height of example_config's maze_size; mazes have at most this many floors
MaxHeight == 2
\* example_config's max_room_size on every axis; caps are drawn from 1..MaxRoomSize
MaxRoomSize == 2
\* the value of a grid cell no room has claimed (Python's None)
None == -2
\* the ids of the start room and of the goal room
StartId == 0
GoalId == -1

Max(a, b) == IF a >= b THEN a ELSE b
Min(a, b) == IF a <= b THEN a ELSE b

(***************************************************************************)
(* Geometry helpers.                                                       *)
(***************************************************************************)
\* range(lo, lo + n) of the source
Range(lo, n) == lo .. (lo + n - 1)

\* the cells of the box [loc, loc+size), as the three nested loops visit them
BoxCells(loc, size) == Range(loc[1], size[1]) \X Range(loc[2], size[2]) \X Range(loc[3], size[3])

\* the k-th cell (k from 0) the nested loops over the box visit
BoxCell(loc, size, k) ==
    << loc[1] + (k \div (size[2] * size[3])),
       loc[2] + ((k \div size[3]) % size[2]),
       loc[3] + (k % size[3]) >>

\* the number of cells the nested loops over the box visit
BoxCount(size) == IF size[1] <= 0 \/ size[2] <= 0 \/ size[3] <= 0 THEN 0 ELSE size[1] * size[2] * size[3]

\* the cells of the grid: indices a list of lists of lists of these lengths accepts
GridCells(ms) == BoxCells(<<0, 0, 0>>, ms)

\* whether self.maze[h][r][c] is an index the grid accepts (coordinates are never negative here)
InGrid(ms, cell) == cell \in GridCells(ms)

(***************************************************************************)
(* Room (src/src/room.py).                                                 *)
(***************************************************************************)
\* Room.__init__
Room(loc, size, id) ==
    [loc |-> loc, size |-> size, id |-> id,
     neighbors |-> << >>, neighbors_directions |-> << >>, doors |-> << >>]

\* whether x occurs in the list s
InSeq(x, s) == \E i \in 1..Len(s) : s[i] = x

\* list.index
IndexOf(x, s) == CHOOSE i \in 1..Len(s) : s[i] = x /\ \A j \in 1..(i - 1) : s[j] # x

\* add_neighbor without the membership test
add_neighbor_Unchecked(room, nid, direction) ==
    [room EXCEPT !.neighbors = Append(@, nid),
                 !.neighbors_directions = Append(@, direction)]

\* Room.add_neighbor
add_neighbor(room, nid, direction) ==
    IF InSeq(nid, room.neighbors) THEN room
    ELSE [room EXCEPT !.neighbors = Append(@, nid),
                      !.neighbors_directions = Append(@, direction)]

\* Room.add_door
add_door(room, nid, door_loc, door_direction) ==
    [room EXCEPT !.doors = (nid :> <<door_loc, door_direction>>) @@ @]

(***************************************************************************)
(* Maze._set_room: the cells are written in loop order; an index outside   *)
(* the grid raises IndexError and leaves the cells written before it.      *)
(***************************************************************************)
\* the loop positions at which the write raises IndexError
BadWrites(ms, loc, size) ==
    {k \in 0..(BoxCount(size) - 1) : ~InGrid(ms, BoxCell(loc, size, k))}

\* the number of cells written before the loops end or raise
WrittenCount(ms, loc, size) ==
    IF BadWrites(ms, loc, size) = {} THEN BoxCount(size)
    ELSE CHOOSE k \in BadWrites(ms, loc, size) : \A j \in BadWrites(ms, loc, size) : k <= j

\* the grid after the writes of _set_room
SetRoomGrid(grid, ms, loc, size, id) ==
    LET n == WrittenCount(ms, loc, size)
        written == {BoxCell(loc, size, k) : k \in 0..(n - 1)}
    IN  [cell \in DOMAIN grid |-> IF cell \in written THEN id ELSE grid[cell]]

\* whether _set_room raises
SetRoomFails(ms, loc, size) == BadWrites(ms, loc, size) # {}

\* self.rooms after _set_room records the room
SetRoomRooms(rms, loc, size, id) == (id :> Room(loc, size, id)) @@ rms

(***************************************************************************)
(* Configurations.                                                         *)
(***************************************************************************)
Triples(S) == S \X S \X S

\* the maze sizes of at most n cells
MazeSizes(n) == {ms \in (1..MaxHeight) \X (1..n) \X (1..n) : ms[1] * ms[2] * ms[3] <= n}

BoxInside(ms, loc, size) ==
    \A d \in 1..3 : loc[d] >= 0 /\ size[d] >= 1 /\ loc[d] + size[d] <= ms[d]

BoxesDisjoint(loc1, size1, loc2, size2) ==
    \E d \in 1..3 : loc1[d] + size1[d] <= loc2[d] \/ loc2[d] + size2[d] <= loc1[d]

\* a configuration the documentation of Maze accepts
ValidConfig(c) ==
    /\ BoxInside(c.maze_size, c.start_loc, c.start_room_size)
    /\ BoxInside(c.maze_size, c.goal_loc, c.goal_room_size)
    /\ BoxesDisjoint(c.start_loc, c.start_room_size, c.goal_loc, c.goal_room_size)
    /\ \A d \in 1..3 : c.max_room_size[d] >= 1

\* the boxes [loc, loc+size) that lie inside a maze of size ms, as <<loc, size>>
BoxesIn(ms) ==
    {b \in (GridCells(ms) \X ((1..ms[1]) \X (1..ms[2]) \X (1..ms[3]))) : BoxInside(ms, b[1], b[2])}

MakeConfig(ms, start, goal, cap) ==
    [maze_size |-> ms, start_loc |-> start[1], start_room_size |-> start[2],
     goal_loc |-> goal[1], goal_room_size |-> goal[2], max_room_size |-> cap]

\* the goal boxes of a valid configuration with start box s that leave at most
\* free cells to the generated rooms
GoalsFor(ms, s, free) ==
    {b \in BoxesIn(ms) :
        /\ BoxesDisjoint(s[1], s[2], b[1], b[2])
        /\ BoxCount(ms) - BoxCount(s[2]) - BoxCount(b[2]) <= free}

\* the caps of the model for a maze of size ms: a cap above the maze's extent acts as that extent
Caps(ms) == (1..Min(MaxRoomSize, ms[1])) \X (1..Min(MaxRoomSize, ms[2])) \X (1..Min(MaxRoomSize, ms[3]))

\* the valid configurations of a maze of size ms with start box s
ConfigsOf(ms, s, free) ==
    {MakeConfig(ms, s, g, cap) : g \in GoalsFor(ms, s, free), cap \in Caps(ms)}

\* the valid configurations of mazes of at most n cells, at most free of them left
\* to the generated rooms
ValidConfigs(n, free) ==
    UNION {UNION {ConfigsOf(ms, s, free) : s \in BoxesIn(ms)} : ms \in MazeSizes(n)}

\* the configurations the whole construction is explored on
Configs == ValidConfigs(MaxTreeCells, MaxFree)

\* the configurations the partition and the network are explored on
GridConfigs == ValidConfigs(MaxCells, MaxCells)

\* the boxes with their corner cell in a maze of size ms, inside it or reaching out of it
AnyBoxes(ms) == GridCells(ms) \X ((1..ms[1]) \X (1..ms[2]) \X (1..ms[3]))

\* the caps from 0 up
AnyCaps(ms) == (0..Min(MaxRoomSize, ms[1])) \X (0..Min(MaxRoomSize, ms[2])) \X (0..Min(MaxRoomSize, ms[3]))

\* the configurations, consistent or not, that Maze.__init__ accepts as given
AnyConfigs ==
    UNION {{MakeConfig(ms, b[1], b[2], cap) : b \in AnyBoxes(ms) \X AnyBoxes(ms), cap \in AnyCaps(ms)} :
              ms \in MazeSizes(MaxAnyCells)}

(***************************************************************************)
(* Maze.__init__ up to the call of _init_maze.                             *)
(***************************************************************************)
InitWith(cs) ==
    /\ config \in cs
    /\ maze = << >>
    /\ rooms = << >>
    /\ paths = << >>
    /\ doors = << >>
    /\ solution_path = << >>
    /\ stack = << >>
    /\ visited = {}
    /\ scan = 0
    /\ room_id = 1
    /\ floor_plan = << >>
    /\ pc = "init_maze"
    /\ error = "none"

Init == InitWith(Configs)

mh == config.maze_size[1]
mr == config.maze_size[2]
mc == config.maze_size[3]

\* Maze._init_maze
InitMaze ==
    /\ pc = "init_maze"
    /\ LET ms == config.maze_size
           empty == [cell \in GridCells(ms) |-> None]
           g0 == SetRoomGrid(empty, ms, config.start_loc, config.start_room_size, StartId)
           f0 == SetRoomFails(ms, config.start_loc, config.start_room_size)
           r0 == SetRoomRooms(rooms, config.start_loc, config.start_room_size, StartId)
           g1 == SetRoomGrid(g0, ms, config.goal_loc, config.goal_room_size, GoalId)
           f1 == SetRoomFails(ms, config.goal_loc, config.goal_room_size)
           r1 == SetRoomRooms(r0, config.goal_loc, config.goal_room_size, GoalId)
       IN  IF f0
           THEN /\ maze' = g0 /\ rooms' = rooms /\ pc' = "error" /\ error' = "IndexError"
           ELSE IF f1
           THEN /\ maze' = g1 /\ rooms' = r0 /\ pc' = "error" /\ error' = "IndexError"
           ELSE /\ maze' = g1 /\ rooms' = r1 /\ pc' = "rooms" /\ error' = error
    /\ UNCHANGED <<config, paths, doors, solution_path, stack, visited, scan, room_id, floor_plan>>

(***************************************************************************)
(* Maze._generate_rooms: one iteration of the innermost scan loop.         *)
(***************************************************************************)
\* the cell the scan is at: the scan-th cell of the grid in (height, row, column) order
ScanCell(ms, k) == BoxCell(<<0, 0, 0>>, ms, k)

\* the while loop growing max_room_h from m
RECURSIVE GrowH(_, _, _, _)
GrowH(grid, cfg, cell, m) ==
    IF /\ m < cfg.max_room_size[1]
       /\ cell[1] + m < cfg.maze_size[1]
       /\ grid[<<cell[1] + m, cell[2], cell[3]>>] = None
    THEN GrowH(grid, cfg, cell, m + 1)
    ELSE m

\* MaxRoomH with the cap of the row axis in place of the cap of the height axis
MaxRoomH_RowCap(grid, cfg, cell) ==
    GrowH(grid, [cfg EXCEPT !.max_room_size[1] = cfg.max_room_size[2]], cell, 1)

\* max_room_h: how far down a room at cell can reach
MaxRoomH(grid, cfg, cell) == GrowH(grid, cfg, cell, 1)

\* the while loop growing max_room_r from m, for the chosen height
RECURSIVE GrowR(_, _, _, _, _)
GrowR(grid, cfg, cell, room_h, m) ==
    IF /\ m < cfg.max_room_size[2]
       /\ cell[2] + m < cfg.maze_size[2]
       /\ \A hj \in 0..(room_h - 1) : grid[<<cell[1] + hj, cell[2] + m, cell[3]>>] = None
    THEN GrowR(grid, cfg, cell, room_h, m + 1)
    ELSE m

\* MaxRoomR with the row probed on the top floor of the room only
MaxRoomR_TopFloorOnly(grid, cfg, cell, room_h) == GrowR(grid, cfg, cell, 1, 1)

\* max_room_r: how many rows a room of height room_h at cell can span
MaxRoomR(grid, cfg, cell, room_h) == GrowR(grid, cfg, cell, room_h, 1)

\* the while loop of the 1x1 case, probing single cells along the column axis
RECURSIVE GrowC1(_, _, _, _)
GrowC1(grid, cfg, cell, m) ==
    IF /\ m < cfg.max_room_size[3]
       /\ cell[3] + m < cfg.maze_size[3]
       /\ grid[<<cell[1], cell[2], cell[3] + m>>] = None
    THEN GrowC1(grid, cfg, cell, m + 1)
    ELSE m

\* the while loops probing the whole height-by-row footprint along the column axis
RECURSIVE GrowCFoot(_, _, _, _, _, _)
GrowCFoot(grid, cfg, cell, room_h, room_r, m) ==
    IF /\ m < cfg.max_room_size[3]
       /\ cell[3] + m < cfg.maze_size[3]
       /\ \A hj \in 0..(room_h - 1) : \A rj \in 0..(room_r - 1) :
             grid[<<cell[1] + hj, cell[2] + rj, cell[3] + m>>] = None
    THEN GrowCFoot(grid, cfg, cell, room_h, room_r, m + 1)
    ELSE m

\* RoomCChoices drawing the column extent at random in the one-unit-extent case too
RoomCChoices_AlwaysDrawn(grid, cfg, cell, room_h, room_r) ==
    IF room_h = 1 /\ room_r = 1
    THEN 1..GrowC1(grid, cfg, cell, 1)
    ELSE IF (room_h = 1 \/ room_r = 1)
            /\ ~(cell[1] = cfg.maze_size[1] - 1 \/ cell[2] = cfg.maze_size[2] - 1)
    THEN {1}
    ELSE 1..GrowCFoot(grid, cfg, cell, room_h, room_r, 1)

\* the values room_c can take for the chosen height and row extents
RoomCChoices(grid, cfg, cell, room_h, room_r) ==
    IF room_h = 1 /\ room_r = 1
    THEN 1..GrowC1(grid, cfg, cell, 1)
    ELSE IF room_h = 1 \/ room_r = 1
    THEN IF cell[1] = cfg.maze_size[1] - 1 \/ cell[2] = cfg.maze_size[2] - 1
         THEN {GrowCFoot(grid, cfg, cell, room_h, room_r, 1)}
         ELSE {1}
    ELSE 1..GrowCFoot(grid, cfg, cell, room_h, room_r, 1)

\* the sizes (room_h, room_r, room_c) the three draws can give a room at cell
RoomSizes(grid, cfg, cell) ==
    UNION {UNION {{<<room_h, room_r, room_c>> : room_c \in RoomCChoices(grid, cfg, cell, room_h, room_r)} :
                     room_r \in 1..MaxRoomR(grid, cfg, cell, room_h)} :
              room_h \in 1..MaxRoomH(grid, cfg, cell)}

\* pc after the scan moved past the scan-th cell
AfterScan(ms, k) == IF k + 1 < BoxCount(ms) THEN "rooms" ELSE "network"

GenerateRoomsStep ==
    /\ pc = "rooms"
    /\ LET ms == config.maze_size
           cell == ScanCell(ms, scan)
       IN  IF maze[cell] # None
           THEN /\ UNCHANGED <<maze, rooms, room_id>>
           ELSE \E size \in RoomSizes(maze, config, cell) :
                   /\ maze' = SetRoomGrid(maze, ms, cell, size, room_id)
                   /\ rooms' = SetRoomRooms(rooms, cell, size, room_id)
                   /\ room_id' = room_id + 1
    /\ scan' = scan + 1
    /\ pc' = AfterScan(config.maze_size, scan)
    /\ UNCHANGED <<config, paths, doors, solution_path, stack, visited, floor_plan, error>>

(***************************************************************************)
(* Maze._generate_maze_network.                                            *)
(***************************************************************************)
\* the rooms in the order self.rooms.values() yields them: start, goal, 1, 2, ...
RoomOrder(rms) ==
    [i \in 1..Cardinality(DOMAIN rms) |-> IF i = 1 THEN StartId ELSE IF i = 2 THEN GoalId ELSE i - 2]

\* whether the face of the room in this direction is not at the grid boundary
FaceInside(ms, room, direction) ==
    LET d == (direction \div 2) + 1
    IN  IF direction % 2 = 0 THEN room.loc[d] > 0 ELSE room.loc[d] + room.size[d] < ms[d]

\* the box of cells just outside the room's face in this direction, as <<loc, size>>
FaceLayer(room, direction) ==
    LET d == (direction \div 2) + 1
        at == IF direction % 2 = 0 THEN room.loc[d] - 1 ELSE room.loc[d] + room.size[d]
    IN  << [room.loc EXCEPT ![d] = at], [room.size EXCEPT ![d] = 1] >>

\* the cells looked up for one direction, in loop order
FaceProbes(ms, room, direction) ==
    IF FaceInside(ms, room, direction)
    THEN LET layer == FaceLayer(room, direction)
         IN  [k \in 1..BoxCount(layer[2]) |-> <<direction, BoxCell(layer[1], layer[2], k - 1)>>]
    ELSE << >>

\* every lookup of the six direction blocks for one room, in order, as <<direction, cell>>
RoomProbes(ms, room) ==
    FaceProbes(ms, room, 0) \o FaceProbes(ms, room, 1) \o FaceProbes(ms, room, 2)
        \o FaceProbes(ms, room, 3) \o FaceProbes(ms, room, 4) \o FaceProbes(ms, room, 5)

\* the room after the lookups from the i-th on; a lookup outside the grid raises and ends them
RECURSIVE ScanProbes(_, _, _, _, _)
ScanProbes(grid, ms, room, probes, i) ==
    IF i > Len(probes) THEN [room |-> room, failed |-> FALSE]
    ELSE IF ~InGrid(ms, probes[i][2]) THEN [room |-> room, failed |-> TRUE]
    ELSE ScanProbes(grid, ms, add_neighbor(room, grid[probes[i][2]], probes[i][1]), probes, i + 1)

\* the body of the loop over the rooms, for one room
RoomNetwork(grid, ms, room) == ScanProbes(grid, ms, room, RoomProbes(ms, room), 1)

\* the position in RoomOrder of the first room whose lookups raise, or 0
FirstFailure(grid, ms, rms) ==
    LET order == RoomOrder(rms)
        bad == {i \in 1..Len(order) : RoomNetwork(grid, ms, rms[order[i]]).failed}
    IN  IF bad = {} THEN 0 ELSE CHOOSE i \in bad : \A j \in bad : i <= j

\* self.rooms after the loop over the rooms ended or raised
NetworkRooms(grid, ms, rms) ==
    LET order == RoomOrder(rms)
        f == FirstFailure(grid, ms, rms)
    IN  [id \in DOMAIN rms |->
            IF f = 0 \/ IndexOf(id, order) <= f THEN RoomNetwork(grid, ms, rms[id]).room ELSE rms[id]]

GenerateMazeNetwork ==
    /\ pc = "network"
    /\ rooms' = NetworkRooms(maze, config.maze_size, rooms)
    /\ IF FirstFailure(maze, config.maze_size, rooms) = 0
       THEN pc' = "tree" /\ error' = error
       ELSE pc' = "error" /\ error' = "IndexError"
    /\ UNCHANGED <<config, maze, paths, doors, solution_path, stack, visited, scan, room_id, floor_plan>>

(***************************************************************************)
(* Maze._add_door.                                                         *)
(***************************************************************************)
\* the direction under which room1 lists room2
NeighborDirection(room1, id2) == room1.neighbors_directions[IndexOf(id2, room1.neighbors)]

\* the first and the second room after the swap that puts the lower-side room first
LowerRoom(rms, id1, id2) == IF NeighborDirection(rms[id1], id2) % 2 = 0 THEN id2 ELSE id1
HigherRoom(rms, id1, id2) == IF NeighborDirection(rms[id1], id2) % 2 = 0 THEN id1 ELSE id2

\* the values randint draws a door coordinate from on a cross axis (d: 1, 2, 3)
OverlapRange(room1, room2, d) ==
    Max(room1.loc[d], room2.loc[d]) .. (Min(room1.loc[d] + room1.size[d], room2.loc[d] + room2.size[d]) - 1)

\* SharedHeight taking the first floor the two rooms share
SharedHeight_Top(room1, room2) == Max(room1.loc[1], room2.loc[1])

\* SharedHeight taking the greater of the two last height indices
SharedHeight_Max(room1, room2) ==
    Max(room1.loc[1] + room1.size[1], room2.loc[1] + room2.size[1]) - 1

\* door_h of a door on the row or column axis
SharedHeight(room1, room2) ==
    Min(room1.loc[1] + room1.size[1], room2.loc[1] + room2.size[1]) - 1

\* the cells (door_h, door_r, door_c) the draws can give, room1 being the lower-side room
DoorCells(room1, room2, door_direction) ==
    IF door_direction = 0
    THEN {<<room1.loc[1] + room1.size[1] - 1, door_r, door_c>> :
              door_r \in OverlapRange(room1, room2, 2), door_c \in OverlapRange(room1, room2, 3)}
    ELSE IF door_direction = 1
    THEN {<<SharedHeight(room1, room2), room1.loc[2] + room1.size[2] - 1, door_c>> :
              door_c \in OverlapRange(room1, room2, 3)}
    ELSE {<<SharedHeight(room1, room2), door_r, room1.loc[3] + room1.size[3] - 1>> :
              door_r \in OverlapRange(room1, room2, 2)}

\* the cell on the higher side of the door
AcrossCell(cell, door_direction) == [cell EXCEPT ![door_direction + 1] = @ + 1]

\* self.doors after the door is registered
DoorsWith(drs, cell, door_direction) ==
    IF cell \in DOMAIN drs
    THEN [drs EXCEPT ![cell] = @ \cup {door_direction}]
    ELSE (cell :> {door_direction}) @@ drs

\* self.rooms after both rooms recorded the door at cell
RoomsWithDoor(rms, lo, hi, cell, door_direction) ==
    [rms EXCEPT ![lo] = add_door(@, hi, cell, door_direction * 2 + 1),
                ![hi] = add_door(@, lo, AcrossCell(cell, door_direction), door_direction * 2)]

(***************************************************************************)
(* Maze._generate_spanning_tree.                                           *)
(***************************************************************************)
\* Unvisited keeping the visited neighbors too
Unvisited_All(room, seen) == room.neighbors

\* [n for n in room.neighbors if n not in visited]
Unvisited(room, seen) == SelectSeq(room.neighbors, LAMBDA n : n \notin seen)

\* the elements of a list
Elems(s) == {s[i] : i \in 1..Len(s)}

\* list.pop(i), i from 0
PopAt(s, i) == SubSeq(s, 1, i) \o SubSeq(s, i + 2, Len(s))

SpanningTreeBegin ==
    /\ pc = "tree"
    /\ stack' = <<StartId>>
    /\ visited' = {StartId}
    /\ pc' = "phase1"
    /\ UNCHANGED <<config, maze, rooms, paths, doors, solution_path, scan, room_id, floor_plan, error>>

\* PathsWith with the key and the value exchanged
PathsWith_Swapped(p, nid, id) == (id :> nid) @@ p

\* self.paths after self.paths[neighbor.id] = room.id
PathsWith(p, nid, id) == (nid :> id) @@ p

\* the branch of both loops that attaches a random unvisited neighbor of room
\* and places the door; next is pc after the iteration
Attach(id, next) ==
    \E nid \in Elems(Unvisited(rooms[id], visited)) :
        LET lo == LowerRoom(rooms, id, nid)
            hi == HigherRoom(rooms, id, nid)
            door_direction == NeighborDirection(rooms[id], nid) \div 2
            cells == DoorCells(rooms[lo], rooms[hi], door_direction)
        IN  /\ stack' = Append(stack, nid)
            /\ visited' = visited \cup {nid}
            /\ paths' = PathsWith(paths, nid, id)
            /\ IF cells = {}
               THEN /\ pc' = "error" /\ error' = "ValueError"
                    /\ UNCHANGED <<doors, rooms>>
               ELSE /\ pc' = next /\ error' = error
                    /\ \E cell \in cells :
                          /\ doors' = DoorsWith(doors, cell, door_direction)
                          /\ rooms' = RoomsWithDoor(rooms, lo, hi, cell, door_direction)

\* pc after an iteration that leaves the stack as s
AfterLoop(s, this) == IF s = << >> THEN "solution" ELSE this

\* Phase1Step without the test for the goal room on top of the stack
Phase1Step_GoalExpanded ==
    /\ pc = "phase1"
    /\ LET id == stack[Len(stack)]
       IN  IF Unvisited(rooms[id], visited) # << >>
           THEN Attach(id, "phase1")
           ELSE /\ stack' = PopAt(stack, Len(stack) - 1)
                /\ pc' = AfterLoop(stack', "phase1")
                /\ UNCHANGED <<visited, paths, doors, rooms, error>>
    /\ UNCHANGED <<config, maze, solution_path, scan, room_id, floor_plan>>

\* one iteration of the random depth-first search
Phase1Step ==
    /\ pc = "phase1"
    /\ LET id == stack[Len(stack)]
       IN  IF id = GoalId
           THEN /\ stack' = PopAt(stack, Len(stack) - 1)
                /\ pc' = AfterLoop(stack', "phase2")
                /\ UNCHANGED <<visited, paths, doors, rooms, error>>
           ELSE IF Unvisited(rooms[id], visited) # << >>
           THEN Attach(id, "phase1")
           ELSE /\ stack' = PopAt(stack, Len(stack) - 1)
                /\ pc' = AfterLoop(stack', "phase1")
                /\ UNCHANGED <<visited, paths, doors, rooms, error>>
    /\ UNCHANGED <<config, maze, solution_path, scan, room_id, floor_plan>>

\* one iteration of the random expansion
Phase2Step ==
    /\ pc = "phase2"
    /\ \E i \in 0..(Len(stack) - 1) :
          LET id == stack[i + 1]
          IN  IF Unvisited(rooms[id], visited) # << >>
              THEN Attach(id, "phase2")
              ELSE /\ stack' = PopAt(stack, i)
                   /\ pc' = AfterLoop(stack', "phase2")
                   /\ UNCHANGED <<visited, paths, doors, rooms, error>>
    /\ UNCHANGED <<config, maze, solution_path, scan, room_id, floor_plan>>

\* self.solution_path = [-1], and the test of the while loop
SolutionPathBegin ==
    /\ pc = "solution"
    /\ solution_path' = <<GoalId>>
    /\ pc' = "walk"
    /\ UNCHANGED <<config, maze, rooms, paths, doors, stack, visited, scan, room_id, floor_plan, error>>

\* one iteration of the backward walk; a room without an entry in paths raises KeyError
SolutionPathStep ==
    /\ pc = "walk"
    /\ IF solution_path[1] \notin DOMAIN paths
       THEN /\ pc' = "error" /\ error' = "KeyError" /\ UNCHANGED solution_path
       ELSE /\ solution_path' = <<paths[solution_path[1]]>> \o solution_path
            /\ pc' = IF solution_path'[1] = StartId THEN "done" ELSE "walk"
            /\ UNCHANGED error
    /\ UNCHANGED <<config, maze, rooms, paths, doors, stack, visited, scan, room_id, floor_plan>>

(***************************************************************************)
(* Maze.print_floor_plan.  A row of the plan is the sequence of its        *)
(* characters; the box-drawing characters and the arrows are written by    *)
(* their Unicode names.                                                    *)
(***************************************************************************)
Blank == " "
FullBlock == "FULL BLOCK"
Horizontal == "LIGHT HORIZONTAL"
Vertical == "LIGHT VERTICAL"
DownRight == "LIGHT DOWN AND RIGHT"
DownLeft == "LIGHT DOWN AND LEFT"
UpRight == "LIGHT UP AND RIGHT"
UpLeft == "LIGHT UP AND LEFT"
VerticalRight == "LIGHT VERTICAL AND RIGHT"
VerticalLeft == "LIGHT VERTICAL AND LEFT"
DownHorizontal == "LIGHT DOWN AND HORIZONTAL"
UpHorizontal == "LIGHT UP AND HORIZONTAL"
VerticalHorizontal == "LIGHT VERTICAL AND HORIZONTAL"

\* direction_chars
direction_chars ==
    <<"UPWARDS ARROW FROM BAR", "DOWNWARDS ARROW FROM BAR", "UPWARDS ARROW",
      "DOWNWARDS ARROW", "LEFTWARDS ARROW", "RIGHTWARDS ARROW">>

\* (cell in self.doors and axis in self.doors[cell])
HasDoor(drs, cell, axis) == cell \in DOMAIN drs /\ axis \in drs[cell]

\* the number of characters of every row of a floor
RowWidth(ms) == 3 * ms[3] + 1

\* the top border row of floor hi (edge = 0) and its bottom border row (edge = mr - 1)
EdgeRow(grid, ms, hi, edge, corner, tee, last) ==
    [k \in 1..RowWidth(ms) |->
        IF k = 1 THEN corner
        ELSE LET ci == (k - 2) \div 3
             IN  IF (k - 2) % 3 < 2 THEN Horizontal
                 ELSE IF ci = ms[3] - 1 THEN last
                 ELSE IF grid[<<hi, edge, ci>>] = grid[<<hi, edge, ci + 1>>] THEN Horizontal
                 ELSE tee]

\* the two characters of a cell in a room floor row
FloorChar(grid, drs, ms, hi, ri, ci) ==
    IF \/ (hi < ms[1] - 1 /\ grid[<<hi, ri, ci>>] = grid[<<hi + 1, ri, ci>>])
       \/ HasDoor(drs, <<hi, ri, ci>>, 0)
    THEN Blank ELSE FullBlock

\* the character after a cell in a room floor row
FloorSeparator(grid, drs, ms, hi, ri, ci) ==
    IF \/ (ci < ms[3] - 1 /\ grid[<<hi, ri, ci>>] = grid[<<hi, ri, ci + 1>>])
       \/ HasDoor(drs, <<hi, ri, ci>>, 2)
    THEN Blank ELSE Vertical

\* the room floor row of row ri
FloorRow(grid, drs, ms, hi, ri) ==
    [k \in 1..RowWidth(ms) |->
        IF k = 1 THEN Vertical
        ELSE LET ci == (k - 2) \div 3
             IN  IF (k - 2) % 3 < 2 THEN FloorChar(grid, drs, ms, hi, ri, ci)
                 ELSE FloorSeparator(grid, drs, ms, hi, ri, ci)]

\* the two characters under a cell in a room border row
BorderChar(grid, drs, hi, ri, ci) ==
    IF grid[<<hi, ri, ci>>] = grid[<<hi, ri + 1, ci>>] \/ HasDoor(drs, <<hi, ri, ci>>, 1)
    THEN Blank ELSE Horizontal

\* Junction with the two tee characters of the horizontal wall exchanged
Junction_TeesSwapped(grid, ms, hi, ri, ci) ==
    LET a == grid[<<hi, ri, ci>>]
        below == grid[<<hi, ri + 1, ci>>]
    IN  IF ci = ms[3] - 1 THEN (IF a = below THEN Vertical ELSE VerticalLeft)
        ELSE LET right == grid[<<hi, ri, ci + 1>>]
                 diag == grid[<<hi, ri + 1, ci + 1>>]
             IN  IF a = diag THEN Blank
                 ELSE IF a = below THEN (IF right = diag THEN Vertical ELSE VerticalRight)
                 ELSE IF a = right THEN (IF below = diag THEN Horizontal ELSE UpHorizontal)
                 ELSE IF below = diag THEN DownHorizontal
                 ELSE IF right = diag THEN VerticalLeft
                 ELSE VerticalHorizontal

\* the character after the two characters under cell (hi, ri, ci) in a room border row
Junction(grid, ms, hi, ri, ci) ==
    LET a == grid[<<hi, ri, ci>>]
        below == grid[<<hi, ri + 1, ci>>]
    IN  IF ci = ms[3] - 1 THEN (IF a = below THEN Vertical ELSE VerticalLeft)
        ELSE LET right == grid[<<hi, ri, ci + 1>>]
                 diag == grid[<<hi, ri + 1, ci + 1>>]
             IN  IF a = diag THEN Blank
                 ELSE IF a = below THEN (IF right = diag THEN Vertical ELSE VerticalRight)
                 ELSE IF a = right THEN (IF below = diag THEN Horizontal ELSE DownHorizontal)
                 ELSE IF below = diag THEN UpHorizontal
                 ELSE IF right = diag THEN VerticalLeft
                 ELSE VerticalHorizontal

\* the room border row between rows ri and ri + 1
BorderRow(grid, drs, ms, hi, ri) ==
    [k \in 1..RowWidth(ms) |->
        IF k = 1 THEN (IF grid[<<hi, ri, 0>>] = grid[<<hi, ri + 1, 0>>] THEN Vertical ELSE VerticalRight)
        ELSE LET ci == (k - 2) \div 3
             IN  IF (k - 2) % 3 < 2 THEN BorderChar(grid, drs, hi, ri, ci)
                 ELSE Junction(grid, ms, hi, ri, ci)]

\* the rows of floor hi: top border, then a floor row and a border row per row, bottom border
FloorRows(grid, drs, ms, hi) ==
    [j \in 1..(2 * ms[2] + 1) |->
        IF j = 1 THEN EdgeRow(grid, ms, hi, 0, DownRight, DownHorizontal, DownLeft)
        ELSE IF j = 2 * ms[2] + 1 THEN EdgeRow(grid, ms, hi, ms[2] - 1, UpRight, UpHorizontal, UpLeft)
        ELSE IF j % 2 = 0 THEN FloorRow(grid, drs, ms, hi, (j - 2) \div 2)
        ELSE BorderRow(grid, drs, ms, hi, (j - 3) \div 2)]

\* floor_plan before the solution path is drawn
PlainPlan(grid, drs, ms) == [f \in 1..ms[1] |-> FloorRows(grid, drs, ms, f - 1)]

\* floor_plan after the arrow of the door from prev_id to id is drawn: the slices
\* put the arrow at the end of a row that is shorter than the arrow's position
DrawArrow(plan, rms, prev_id, id) ==
    LET door == rms[prev_id].doors[id]
        fpi == door[1][1]
        fpj == door[1][2] * 2 + 1
        fpk == door[1][3] * 3 + 1 + (door[2] % 2)
        row == plan[fpi + 1][fpj + 1]
        ch == direction_chars[door[2] + 1]
    IN  [plan EXCEPT ![fpi + 1][fpj + 1] =
            IF fpk < Len(row) THEN [row EXCEPT ![fpk + 1] = ch] ELSE Append(row, ch)]

\* floor_plan after the arrows of the steps of the path from the i-th on are drawn
RECURSIVE DrawPath(_, _, _, _)
DrawPath(plan, rms, path, i) ==
    IF i >= Len(path) THEN plan
    ELSE DrawPath(DrawArrow(plan, rms, path[i], path[i + 1]), rms, path, i + 1)

\* the exception drawing the arrow from prev_id to id raises, "none" if it draws:
\* the lookup prev_room.doors[room], then the floor and the row of the door's cell
ArrowError(ms, rms, prev_id, id) ==
    IF id \notin DOMAIN rms[prev_id].doors THEN "KeyError"
    ELSE LET door == rms[prev_id].doors[id]
         IN  IF door[1][1] >= ms[1] \/ door[1][2] * 2 + 1 >= 2 * ms[2] + 1
             THEN "IndexError"
             ELSE "none"

\* the exception of the first step of the path from the i-th on that raises
RECURSIVE PathError(_, _, _, _)
PathError(ms, rms, path, i) ==
    IF i >= Len(path) THEN "none"
    ELSE IF ArrowError(ms, rms, path[i], path[i + 1]) # "none"
    THEN ArrowError(ms, rms, path[i], path[i + 1])
    ELSE PathError(ms, rms, path, i + 1)

PrintFloorPlan ==
    /\ pc = "done"
    /\ \E print_solution_path \in BOOLEAN :
          LET plain == PlainPlan(maze, doors, config.maze_size)
              raised == PathError(config.maze_size, rooms, solution_path, 1)
          IN  IF print_solution_path /\ raised # "none"
              THEN /\ pc' = "error" /\ error' = raised /\ UNCHANGED floor_plan
              ELSE /\ floor_plan' = IF print_solution_path
                                    THEN DrawPath(plain, rooms, solution_path, 1)
                                    ELSE plain
                   /\ UNCHANGED <<pc, error>>
    /\ UNCHANGED <<config, maze, rooms, paths, doors, solution_path, stack, visited, scan, room_id>>

Next ==
    \/ InitMaze
    \/ GenerateRoomsStep
    \/ GenerateMazeNetwork
    \/ SpanningTreeBegin
    \/ Phase1Step
    \/ Phase2Step
    \/ SolutionPathBegin
    \/ SolutionPathStep
    \/ PrintFloorPlan

Spec == Init /\ [][Next]_vars

\* the configurations termination is explored on
LiveConfigs == ValidConfigs(MaxLiveCells, MaxFree)

LiveInit == InitWith(LiveConfigs)

\* the construction runs to its end: Maze.__init__ is one sequential call that
\* always takes its next step
LiveSpec == LiveInit /\ [][Next]_vars /\ WF_vars(Next)

\* the whole construction on larger mazes that the start and goal rooms nearly fill
DoorConfigs == ValidConfigs(MaxCells, MaxDoorFree)

DoorInit == InitWith(DoorConfigs)

DoorSpec == DoorInit /\ [][Next]_vars

\* the first two stages alone, on larger mazes
GridInit == InitWith(GridConfigs)

GridNext ==
    \/ InitMaze
    \/ GenerateRoomsStep
    \/ GenerateMazeNetwork

GridSpec == GridInit /\ [][GridNext]_vars

\* the construction and the printing on any configuration
AnyInit == InitWith(AnyConfigs)

AnySpec == AnyInit /\ [][Next]_vars
(***************************************************************************)
(* Properties of the partition and of the network.                         *)
(***************************************************************************)
\* the ids of the generated rooms
Generated(rms) == DOMAIN rms \ {StartId, GoalId}

\* whether _generate_rooms has returned
Partitioned == pc \in {"network", "tree", "phase1", "phase2", "solution", "walk", "done"}

\* whether _generate_maze_network has returned
Networked == pc \in {"tree", "phase1", "phase2", "solution", "walk", "done"}

\* C2: after _generate_rooms no cell is empty, every room's box lies inside the
\* grid, and a cell holds id k exactly when it lies in the box of rooms[k]; so
\* the boxes are pairwise disjoint and cover the grid.
C2_BoxesPartitionGrid ==
    Partitioned =>
        /\ \A cell \in GridCells(config.maze_size) : maze[cell] # None /\ maze[cell] \in DOMAIN rooms
        /\ \A k \in DOMAIN rooms :
              /\ BoxInside(config.maze_size, rooms[k].loc, rooms[k].size)
              /\ \A cell \in GridCells(config.maze_size) :
                    maze[cell] = k <=> cell \in BoxCells(rooms[k].loc, rooms[k].size)
        /\ \A j, k \in DOMAIN rooms :
              j # k => BoxesDisjoint(rooms[j].loc, rooms[j].size, rooms[k].loc, rooms[k].size)

\* a partition with a generated room of more than one floor and more than one row
\* lying beside a room that starts one row further
C2_Witness ==
    /\ pc = "network"
    /\ \E k \in Generated(rooms) : \E j \in DOMAIN rooms :
          /\ rooms[k].size[1] > 1
          /\ rooms[j].loc[2] = rooms[k].loc[2] + rooms[k].size[2]
          /\ rooms[j].loc[1] > rooms[k].loc[1]
          /\ rooms[j].loc[3] = rooms[k].loc[3]

\* lexicographic order of cells
LexLess(a, b) ==
    \/ a[1] < b[1]
    \/ a[1] = b[1] /\ a[2] < b[2]
    \/ a[1] = b[1] /\ a[2] = b[2] /\ a[3] < b[3]

\* C8: every generated room has on each axis an extent between 1 and the cap of
\* that axis; the generated ids are exactly 1..N, in the lexicographic order of
\* the rooms' minimal corners.
C8_SizesAndIds ==
    Partitioned =>
        /\ Generated(rooms) = 1..(room_id - 1)
        /\ {maze[cell] : cell \in GridCells(config.maze_size)} \ {StartId, GoalId} = 1..(room_id - 1)
        /\ \A k \in Generated(rooms) :
              /\ \A d \in 1..3 : 1 <= rooms[k].size[d] /\ rooms[k].size[d] <= config.max_room_size[d]
              /\ \A j \in Generated(rooms) : j < k => LexLess(rooms[j].loc, rooms[k].loc)

\* a partition with three generated rooms, one of them as large as caps that differ
\* between the height and the row axis allow
C8_Witness ==
    /\ pc = "network"
    /\ room_id >= 4
    /\ config.max_room_size[1] # config.max_room_size[2]
    /\ \E k \in Generated(rooms) : rooms[k].size[1] = config.max_room_size[1]
                                   /\ rooms[k].size[2] = config.max_room_size[2]
                                   /\ rooms[k].size[1] * rooms[k].size[2] > 1

\* whether the boxes of two rooms share at least one unit cell face across axis d,
\* a on the lower side
FaceOn(a, b, d) ==
    /\ a.loc[d] + a.size[d] = b.loc[d]
    /\ \A e \in (1..3) \ {d} : Max(a.loc[e], b.loc[e]) < Min(a.loc[e] + a.size[e], b.loc[e] + b.size[e])

ShareFace(a, b) == \E d \in 1..3 : FaceOn(a, b, d) \/ FaceOn(b, a, d)

\* the number of entries of room a's neighbor list that are b
Listed(a, b) == Cardinality({i \in 1..Len(a.neighbors) : a.neighbors[i] = b.id})

\* the code of the same axis and the other side
Opposite(direction) == IF direction % 2 = 0 THEN direction + 1 ELSE direction - 1

\* C5: after _generate_maze_network two distinct rooms list each other exactly when
\* their boxes share a unit cell face, each exactly once, no room lists itself,
\* and the two recorded directions are the opposite codes of one axis.
C5_NeighborsAreFaceSharers ==
    Networked =>
        \A j, k \in DOMAIN rooms :
            /\ Len(rooms[j].neighbors) = Len(rooms[j].neighbors_directions)
            /\ Listed(rooms[j], rooms[j]) = 0
            /\ j # k =>
                 /\ Listed(rooms[j], rooms[k]) = (IF ShareFace(rooms[j], rooms[k]) THEN 1 ELSE 0)
                 /\ Listed(rooms[j], rooms[k]) = Listed(rooms[k], rooms[j])
                 /\ Listed(rooms[j], rooms[k]) = 1 =>
                       NeighborDirection(rooms[k], j) = Opposite(NeighborDirection(rooms[j], k))

\* a network in which a room borders another over a face of more than one cell and
\* has a second neighbor on the same side
C5_Witness ==
    /\ pc = "tree"
    /\ \E j, k, l \in DOMAIN rooms :
          /\ k # l
          /\ InSeq(k, rooms[j].neighbors) /\ InSeq(l, rooms[j].neighbors)
          /\ NeighborDirection(rooms[j], k) = NeighborDirection(rooms[j], l)
          /\ \E d \in 1..3 : FaceOn(rooms[j], rooms[k], d)
                /\ \E e \in (1..3) \ {d} :
                      Min(rooms[j].loc[e] + rooms[j].size[e], rooms[k].loc[e] + rooms[k].size[e])
                          - Max(rooms[j].loc[e], rooms[k].loc[e]) > 1
(***************************************************************************)
(* The column extent of a generated room.                                  *)
(***************************************************************************)
\* whether the box lies in the grid and none of its cells is claimed
BoxFree(grid, ms, loc, size) ==
    \A cell \in BoxCells(loc, size) : cell \in GridCells(ms) /\ grid[cell] = None

\* the largest column extent, capped by max_room_size[2], whose full
\* height-by-row footprint at cell is unclaimed
FreeExtent(grid, cfg, cell, room_h, room_r) ==
    LET fits == {e \in 1..cfg.max_room_size[3] : BoxFree(grid, cfg.maze_size, cell, <<room_h, room_r, e>>)}
    IN  CHOOSE e \in fits : \A f \in fits : f <= e

\* the grid as it was when generated room k was created: later rooms not yet there
PreGrid(grid, k) == [cell \in DOMAIN grid |-> IF grid[cell] >= k THEN None ELSE grid[cell]]

\* the column extents the original statement allows
StatedColumns(grid, cfg, cell, room_h, room_r) ==
    IF \/ room_r = 1 /\ room_h > 1 /\ cell[1] + room_h = cfg.maze_size[1]
       \/ room_h = 1 /\ room_r > 1 /\ cell[2] + room_r = cfg.maze_size[2]
    THEN {1}
    ELSE 1..FreeExtent(grid, cfg, cell, room_h, room_r)

\* the column extents the amended statement allows
AmendedColumns(grid, cfg, cell, room_h, room_r) ==
    IF room_h = 1 \/ room_r = 1
    THEN IF cell[1] = cfg.maze_size[1] - 1 \/ cell[2] = cfg.maze_size[2] - 1
         THEN {FreeExtent(grid, cfg, cell, room_h, room_r)}
         ELSE {1}
    ELSE 1..FreeExtent(grid, cfg, cell, room_h, room_r)

\* the height and row extents the first two draws can give at an unclaimed scan cell
ExtentPairs(grid, cfg, cell) ==
    {hr \in (1..cfg.max_room_size[1]) \X (1..cfg.max_room_size[2]) :
        /\ hr[1] <= MaxRoomH(grid, cfg, cell)
        /\ hr[2] <= MaxRoomR(grid, cfg, cell, hr[1])
        /\ ~(hr[1] = 1 /\ hr[2] = 1)}

\* C10 as stated: with exactly one of the height and row extents 1 and the room
\* touching the outer boundary on the other dimension, the column extent is 1;
\* in every other case with the two not both 1 it can be any value in [1, max].
C10_AsStated ==
    /\ (pc = "rooms" /\ maze[ScanCell(config.maze_size, scan)] = None) =>
          \A hr \in ExtentPairs(maze, config, ScanCell(config.maze_size, scan)) :
              RoomCChoices(maze, config, ScanCell(config.maze_size, scan), hr[1], hr[2])
                  = StatedColumns(maze, config, ScanCell(config.maze_size, scan), hr[1], hr[2])
    /\ (pc # "init_maze") =>
          \A k \in Generated(rooms) :
              ~(rooms[k].size[1] = 1 /\ rooms[k].size[2] = 1) =>
                  rooms[k].size[3] \in StatedColumns(PreGrid(maze, k), config, rooms[k].loc,
                                                     rooms[k].size[1], rooms[k].size[2])

\* C10 (amended): with exactly one of the height and row extents 1, the column
\* extent is max itself, without a draw, when the room's corner cell lies on the
\* last floor or on the last row, and 1 otherwise; with neither extent 1 it can
\* be any value in [1, max].  max is the largest extent, capped by
\* max_room_size[2], whose full height-by-row footprint is unclaimed.
C10_ColumnExtent ==
    /\ (pc = "rooms" /\ maze[ScanCell(config.maze_size, scan)] = None) =>
          \A hr \in ExtentPairs(maze, config, ScanCell(config.maze_size, scan)) :
              RoomCChoices(maze, config, ScanCell(config.maze_size, scan), hr[1], hr[2])
                  = AmendedColumns(maze, config, ScanCell(config.maze_size, scan), hr[1], hr[2])
    /\ (pc # "init_maze") =>
          \A k \in Generated(rooms) :
              ~(rooms[k].size[1] = 1 /\ rooms[k].size[2] = 1) =>
                  rooms[k].size[3] \in AmendedColumns(PreGrid(maze, k), config, rooms[k].loc,
                                                      rooms[k].size[1], rooms[k].size[2])

\* a room one floor high and several rows deep was created on the last floor,
\* reaching the last row, and took the whole free extent of several columns
C10_Witness ==
    /\ pc = "network"
    /\ \E k \in Generated(rooms) :
          /\ rooms[k].size[1] = 1 /\ rooms[k].size[2] > 1 /\ rooms[k].size[3] > 1
          /\ rooms[k].loc[1] = config.maze_size[1] - 1
          /\ rooms[k].loc[2] + rooms[k].size[2] = config.maze_size[2]
(***************************************************************************)
(* Properties of the spanning tree, the doors and the solution path.       *)
(***************************************************************************)
\* the room ids present in the grid
GridIds == {maze[cell] : cell \in DOMAIN maze}

\* whether following the parent links from id reaches the start room without
\* meeting a room of seen or a room that has no parent
RECURSIVE Climbs(_, _, _)
Climbs(p, id, seen) ==
    IF id = StartId THEN TRUE
    ELSE IF id \notin DOMAIN p \/ id \in seen THEN FALSE
    ELSE Climbs(p, p[id], seen \cup {id})

\* the number of parent links from id to the start room, for an id that climbs to it
RECURSIVE Depth(_, _)
Depth(p, id) == IF id = StartId THEN 0 ELSE 1 + Depth(p, p[id])

\* C1: after construction every room id of the grid other than 0 is a key of
\* paths, 0 is not, and the parent links from every room reach 0 without
\* repeating a room.
C1_TreeSpansAllRooms ==
    pc = "done" =>
        /\ \A id \in GridIds \ {StartId} : id \in DOMAIN paths
        /\ StartId \notin DOMAIN paths
        /\ \A id \in GridIds : Climbs(paths, id, {})

\* C3: construction ends with a solution_path from 0 to -1 whose consecutive
\* pairs are parent and child in paths and whose length is the depth of the goal
\* plus 1; the backward walk never looks up a room that has no entry in paths.
C3_SolutionPathIsTreePath ==
    /\ error # "KeyError"
    /\ pc = "walk" => solution_path[1] \in DOMAIN paths
    /\ pc = "done" =>
          /\ solution_path[1] = StartId
          /\ solution_path[Len(solution_path)] = GoalId
          /\ \A i \in 1..(Len(solution_path) - 1) :
                /\ solution_path[i + 1] \in DOMAIN paths
                /\ paths[solution_path[i + 1]] = solution_path[i]
          /\ Climbs(paths, GoalId, {})
          /\ Len(solution_path) = Depth(paths, GoalId) + 1

\* a finished maze whose solution passes through two rooms and whose tree has a
\* branch off the solution
C3_Witness ==
    /\ pc = "done"
    /\ Len(solution_path) >= 4
    /\ Cardinality(DOMAIN paths) > Len(solution_path) - 1

\* whether rooms lo and hi hold the two sides of one door across axis a (0, 1, 2),
\* lo on the lower side, registered in the global registry
DoorBetween(lo, hi, a) ==
    /\ hi \in DOMAIN rooms[lo].doors /\ lo \in DOMAIN rooms[hi].doors
    /\ LET lc == rooms[lo].doors[hi][1]
           hc == rooms[hi].doors[lo][1]
       IN  /\ rooms[lo].doors[hi][2] = 2 * a + 1
           /\ rooms[hi].doors[lo][2] = 2 * a
           /\ hc[a + 1] = lc[a + 1] + 1
           /\ \A e \in (1..3) \ {a + 1} : hc[e] = lc[e]
           /\ lc \in BoxCells(rooms[lo].loc, rooms[lo].size)
           /\ hc \in BoxCells(rooms[hi].loc, rooms[hi].size)
           /\ \A e \in (1..3) \ {a + 1} :
                 /\ Max(rooms[lo].loc[e], rooms[hi].loc[e]) <= lc[e]
                 /\ lc[e] < Min(rooms[lo].loc[e] + rooms[lo].size[e], rooms[hi].loc[e] + rooms[hi].size[e])
           /\ lc \in DOMAIN doors /\ a \in doors[lc]

\* C4: for every entry paths[k] = p the rooms k and p hold a door entry for each
\* other: the cells differ by 1 along the shared-face axis a only, the lower-side
\* room records 2a+1 and the higher-side room 2a, each cell lies in its own room
\* and in the overlap of the two boxes on both cross axes, and the registry holds
\* a at the lower-side cell.
C4_DoorPerTreeEdge ==
    pc \in {"phase1", "phase2", "solution", "walk", "done"} =>
        \A k \in DOMAIN paths :
            \E a \in 0..2 : DoorBetween(k, paths[k], a) \/ DoorBetween(paths[k], k, a)

\* a finished maze with a door through a wall between two rooms whose lowest
\* floors differ, and a door through a floor
C4_Witness ==
    /\ pc = "done"
    /\ \E k \in DOMAIN paths :
          /\ rooms[k].doors[paths[k]][2] \div 2 # 0
          /\ rooms[k].loc[1] + rooms[k].size[1] # rooms[paths[k]].loc[1] + rooms[paths[k]].size[1]
    /\ \E k \in DOMAIN paths : rooms[k].doors[paths[k]][2] \div 2 = 0

(***************************************************************************)
(* Properties of the floor plan.                                           *)
(***************************************************************************)
\* the arms of a box-drawing character
Arms(ch) ==
    IF ch = Vertical THEN {"up", "down"}
    ELSE IF ch = Horizontal THEN {"left", "right"}
    ELSE IF ch = VerticalRight THEN {"up", "down", "right"}
    ELSE IF ch = VerticalLeft THEN {"up", "down", "left"}
    ELSE IF ch = DownHorizontal THEN {"down", "left", "right"}
    ELSE IF ch = UpHorizontal THEN {"up", "left", "right"}
    ELSE IF ch = VerticalHorizontal THEN {"up", "down", "left", "right"}
    ELSE IF ch = DownRight THEN {"down", "right"}
    ELSE IF ch = DownLeft THEN {"down", "left"}
    ELSE IF ch = UpRight THEN {"up", "right"}
    ELSE IF ch = UpLeft THEN {"up", "left"}
    ELSE {}

\* the character printed at the corner where (ri, ci), (ri, ci+1), (ri+1, ci) and
\* (ri+1, ci+1) of floor hi meet
CornerChar(plan, hi, ri, ci) == plan[hi + 1][2 * ri + 3][3 * ci + 4]

\* the interior corners of the floors of a maze, as <<hi, ri, ci>>
Corners(ms) == (0..(ms[1] - 1)) \X (0..(ms[2] - 2)) \X (0..(ms[3] - 2))

\* the wall segments that meet at a corner of the grid
WallArms(grid, hi, ri, ci) ==
    LET a == grid[<<hi, ri, ci>>]
        b == grid[<<hi, ri, ci + 1>>]
        c == grid[<<hi, ri + 1, ci>>]
        d == grid[<<hi, ri + 1, ci + 1>>]
    IN  (IF a # b THEN {"up"} ELSE {}) \cup (IF c # d THEN {"down"} ELSE {})
            \cup (IF a # c THEN {"left"} ELSE {}) \cup (IF b # d THEN {"right"} ELSE {})

\* C9: in the rendered floor plan the junction character at every interior corner
\* has an upward arm iff the two upper cells are different rooms, a downward arm
\* iff the two lower cells are, a left arm iff the two left cells are, a right
\* arm iff the two right cells are, and is blank when there is no arm.
C9_JunctionMatchesWalls ==
    floor_plan # << >> =>
        \A x \in Corners(config.maze_size) :
            /\ Arms(CornerChar(floor_plan, x[1], x[2], x[3])) = WallArms(maze, x[1], x[2], x[3])
            /\ WallArms(maze, x[1], x[2], x[3]) = {} => CornerChar(floor_plan, x[1], x[2], x[3]) = Blank

\* a printed plan with a crossing and a tee under a horizontal wall
C9_Witness ==
    /\ floor_plan # << >>
    /\ \E x \in Corners(config.maze_size) : CornerChar(floor_plan, x[1], x[2], x[3]) = VerticalHorizontal
    /\ \E x \in Corners(config.maze_size) : CornerChar(floor_plan, x[1], x[2], x[3]) = DownHorizontal
(***************************************************************************)
(* Termination.                                                            *)
(***************************************************************************)
\* a step of the partition scan leaves every claimed cell with the id it has
ClaimsOnce ==
    pc = "rooms" => \A cell \in DOMAIN maze : maze[cell] # None => maze'[cell] = maze[cell]

\* an iteration of the phase-1 or phase-2 loop marks one new room visited and
\* pushes it, or removes one room from the stack
LoopProgress ==
    pc \in {"phase1", "phase2"} =>
        \/ /\ \E id \in DOMAIN rooms : id \notin visited /\ visited' = visited \cup {id}
           /\ Len(stack') = Len(stack) + 1
        \/ /\ visited' = visited
           /\ Len(stack') = Len(stack) - 1

\* C7: construction terminates: the partition scan claims each cell at most once,
\* every iteration of the phase-1 and phase-2 loops marks a new room visited or
\* removes one room from the stack, and the construction reaches its end with
\* the backward walk at room 0.
C7_ConstructionTerminates ==
    /\ [][ClaimsOnce /\ LoopProgress]_vars
    /\ <>(pc = "done" /\ solution_path[1] = StartId)

\* a finished maze of five rooms or more with a solution through a third room
C7_Witness ==
    /\ pc = "done"
    /\ Cardinality(DOMAIN rooms) >= 5
    /\ Len(solution_path) >= 3
    /\ visited = DOMAIN rooms

(***************************************************************************)
(* The height of a door through a wall.                                    *)
(***************************************************************************)
\* the indices a room occupies on axis d (1, 2, 3)
Indices(room, d) == room.loc[d]..(room.loc[d] + room.size[d] - 1)

\* the indices two rooms both occupy on axis d
Common(room1, room2, d) == Indices(room1, d) \cap Indices(room2, d)

\* the greatest element of a non-empty set of integers
Greatest(S) == CHOOSE x \in S : \A y \in S : y <= x

\* the pairs <<lo, hi>> of rooms adjacent along the row or column axis, lo on the lower side
WallPairs ==
    {x \in (DOMAIN rooms) \X (DOMAIN rooms) :
        /\ InSeq(x[2], rooms[x[1]].neighbors)
        /\ NeighborDirection(rooms[x[1]], x[2]) \in {3, 5}}

\* the cells a door through the wall between lo and hi may be at, on the side of lo:
\* the greatest height index both rooms occupy, the last index of lo on the axis
\* of the wall, any index both rooms occupy on the remaining axis
WallDoorCells(lo, hi, a) ==
    {cell \in GridCells(config.maze_size) :
        /\ cell[1] = Greatest(Common(rooms[lo], rooms[hi], 1))
        /\ cell[a + 1] = rooms[lo].loc[a + 1] + rooms[lo].size[a + 1] - 1
        /\ cell[4 - a] \in Common(rooms[lo], rooms[hi], 4 - a)}

\* C11: for two rooms adjacent along the row or column axis, the cells _add_door
\* can draw are those at the greatest height index both rooms occupy, with the
\* remaining cross-axis coordinate anywhere in the overlap of the two rooms on
\* that axis; every door recorded through such a wall is at one of these cells.
C11_DoorAtLastSharedFloor ==
    pc \in {"tree", "phase1", "phase2", "solution", "walk", "done"} =>
        \A x \in WallPairs :
            LET a == NeighborDirection(rooms[x[1]], x[2]) \div 2
            IN  /\ Common(rooms[x[1]], rooms[x[2]], 1) # {}
                /\ DoorCells(rooms[x[1]], rooms[x[2]], a) = WallDoorCells(x[1], x[2], a)
                /\ x[2] \in DOMAIN rooms[x[1]].doors =>
                      /\ rooms[x[1]].doors[x[2]][1] \in WallDoorCells(x[1], x[2], a)
                      /\ rooms[x[1]].doors[x[2]][2] = 2 * a + 1

\* a finished maze with a door through the wall between two rooms that end on
\* different floors and overlap in two cells on the remaining axis
C11_Witness ==
    /\ pc = "done"
    /\ \E x \in WallPairs :
          LET a == NeighborDirection(rooms[x[1]], x[2]) \div 2
          IN  /\ x[2] \in DOMAIN rooms[x[1]].doors
              /\ rooms[x[1]].loc[1] + rooms[x[1]].size[1] # rooms[x[2]].loc[1] + rooms[x[2]].size[1]
              /\ Cardinality(Common(rooms[x[1]], rooms[x[2]], 4 - a)) >= 2

(***************************************************************************)
(* The goal room in the tree.                                              *)
(***************************************************************************)
\* the parents recorded in paths
Parents == {paths[k] : k \in DOMAIN paths}

C6_InconsistentConfigRejected ==
    ~ValidConfig(config) =>
        /\ pc \in {"init_maze", "error"}
        /\ pc # "init_maze" => \A cell \in DOMAIN maze : maze[cell] = None

====
